---- MODULE Spec2Model ----
(***************************************************************************)
(* Model of the backend of the user/posts application: the Express routers *)
(* routes/posts.ts and routes/users.ts, the repositories db/posts/posts.ts *)
(* and db/users/users.ts, and the sqlite tables they read and write.       *)
(*                                                                         *)
(* A string is a sequence of one-character strings, so that trim() and     *)
(* Number() are computed rather than assumed.  Every request runs in a     *)
(* request slot; a handler runs synchronously up to its first await, and   *)
(* each storage callback is a separate step, so requests interleave at     *)
(* exactly the points where the Node event loop lets them interleave.      *)
(*                                                                         *)
(* The browser side is the state of three React components: the users page *)
(* with its Pagination, the delete dialog of the posts page, and the       *)
(* new-post modal.  Every event handler is one step, followed by the       *)
(* render of the new state; a response or a timer arriving is a step too.  *)
(***************************************************************************)
EXTENDS Integers, Sequences, FiniteSets, TLC

\* ------------------------------------------------------------------ bounds
MaxPosts == 2
MaxUsers == 2
MaxClock == 1
MaxCount == 36      \* the largest count the usersCount query answers
MaxSent == 4        \* delete requests the posts page sends
MaxSessions == 2    \* times the new-post modal is opened
MaxTimers == 2      \* delayed closes pending together

\* --------------------------------------------------------------- strings
Digits == <<"0", "1", "2", "3", "4", "5", "6", "7", "8", "9">>

IsWhitespace(c) == c = " "

RECURSIVE TrimStart(_)
TrimStart(s) ==
  IF s = <<>> THEN <<>>
  ELSE IF IsWhitespace(Head(s)) THEN TrimStart(Tail(s)) ELSE s

RECURSIVE TrimEnd(_)
TrimEnd(s) ==
  IF s = <<>> THEN <<>>
  ELSE IF IsWhitespace(s[Len(s)]) THEN TrimEnd(SubSeq(s, 1, Len(s) - 1)) ELSE s

\* String.prototype.trim
Trim(s) == TrimEnd(TrimStart(s))

\* ------------------------------------------------------------- JS values
\* A JSON / query value: its typeof tag, its number and its string.
Undefined == [t |-> "undefined", n |-> 0, s |-> <<>>]
JNull     == [t |-> "object", n |-> 0, s |-> <<>>]
JNum(k)   == [t |-> "number", n |-> k, s |-> <<>>]
JStr(str) == [t |-> "string", n |-> 0, s |-> str]

TypeOf(x) == x.t

\* !x
Not(x) ==
  \/ x.t = "undefined"
  \/ x.t = "object"
  \/ x.t = "number" /\ x.n = 0
  \/ x.t = "string" /\ x.s = <<>>

\* A JS number that may be NaN.
NaN    == [nan |-> TRUE, n |-> 0]
Num(k) == [nan |-> FALSE, n |-> k]

IsDigit(c) == \E i \in 1..10 : Digits[i] = c

DigitVal(c) == (CHOOSE i \in 1..10 : Digits[i] = c) - 1

RECURSIVE ParseDigits(_)
ParseDigits(s) ==
  IF s = <<>> THEN 0
  ELSE ParseDigits(SubSeq(s, 1, Len(s) - 1)) * 10 + DigitVal(s[Len(s)])

AllDigits(s) == s # <<>> /\ \A i \in 1..Len(s) : IsDigit(s[i])

\* Number(x) on undefined and on strings of blanks, signs, decimal digits and
\* letters: blank -> 0, an optionally signed decimal -> its value, else NaN.
Number(x) ==
  IF x.t = "undefined" THEN NaN
  ELSE IF x.t = "number" THEN Num(x.n)
  ELSE IF x.t # "string" THEN NaN
  ELSE LET str == Trim(x.s) IN
       IF str = <<>> THEN Num(0)
       ELSE IF AllDigits(str) THEN Num(ParseDigits(str))
       ELSE IF Head(str) = "-" /\ AllDigits(Tail(str)) THEN Num(0 - ParseDigits(Tail(str)))
       ELSE IF Head(str) = "+" /\ AllDigits(Tail(str)) THEN Num(ParseDigits(Tail(str)))
       ELSE NaN

\* x || d for a number x
OrDefault(x, d) == IF x.nan \/ x.n = 0 THEN d ELSE x.n

\* ------------------------------------------------------------------ data
Procs == {"r1", "r2"}

PostId(k) == <<"p", Digits[k + 1]>>
PostIds == {PostId(k) : k \in 1..MaxPosts}

UserId(k) == <<"u", Digits[k + 1]>>

\* Seed rows of the users table; address columns may be NULL or padded.
SeedUser(k) ==
  [id |-> UserId(k),
   name |-> <<"n", Digits[k + 1]>>,
   street |-> IF k % 3 = 1 THEN JNull ELSE IF k % 3 = 2 THEN JStr(<<" ", "s", " ">>) ELSE JStr(<<"s">>),
   city |-> IF k % 2 = 1 THEN JStr(<<>>) ELSE JStr(<<"c", " ">>),
   state |-> IF k % 2 = 1 THEN JStr(<<" ", "a">>) ELSE JNull,
   zipcode |-> IF k % 3 = 0 THEN JNull ELSE JStr(<<"9">>)]

SeedUsers(k) == [i \in 1..k |-> SeedUser(i)]

NoLoc == [userId |-> <<>>, title |-> <<>>, body |-> <<>>, id |-> <<>>,
          createdAt |-> 0, offset |-> 0, limit |-> 0]

NoReq == [kind |-> "none", title |-> Undefined, body |-> Undefined,
          userId |-> Undefined, id |-> Undefined,
          pageNumber |-> Undefined, pageSize |-> Undefined]

NoResp == [status |-> 0, key |-> "", msg |-> "", posts |-> <<>>, users |-> <<>>, count |-> 0]

Status(code) == [NoResp EXCEPT !.status = code]
SendError(code, m) == [NoResp EXCEPT !.status = code, !.key = "error", !.msg = m]
SendMessage(code, m) == [NoResp EXCEPT !.status = code, !.key = "message", !.msg = m]

VARIABLES
  users,    \* the users table, in rowid order
  posts,    \* the posts table, in rowid order
  now,      \* the server clock
  pc,       \* per request slot: where the handler is
  req,      \* per request slot: the request
  loc,      \* per request slot: the handler's locals
  resp,     \* per request slot: the response sent (status 0: none yet)
  thrown,   \* per request slot: message of the error the repository rejected with
  ops,      \* per request slot: the storage statements issued so far
  hist      \* per post id: the last thing a request did to it, and the slots
            \* whose delete of it was in flight when it was deleted

server == <<users, posts, now, pc, req, loc, resp, thrown, ops, hist>>

VARIABLES
  currentPage,      \* UsersPage: the page index
  countData,        \* UsersPage: the data of the usersCount query
  usersQuery,       \* UsersPage: status of the users query of the current page
  pages,            \* Pagination: what renderPages returned in the last render
  deleteModalOpen,  \* PostsPage: the delete dialog is shown
  postToDelete,     \* PostsPage: id of the selected post, or NoId for null
  deletePending,    \* PostsPage: deletePostMutation.isPending
  sent,             \* PostsPage: the ids deletePost (api) was called with, in order
  shownPosts,       \* PostsPage: ids of the posts of the posts query
  isOpen,           \* NewPostModal: the modal is shown
  formTitle,        \* NewPostModal: the title input
  formBody,         \* NewPostModal: the content input
  message,          \* NewPostModal: the status message
  createPending,    \* NewPostModal: session of the submission in flight, 0 for none
  timers,           \* NewPostModal: pending delayed closes, by session of submission
  session,          \* NewPostModal: how many times the modal has been opened
  lastFired         \* NewPostModal: what the last delayed close found and did

usersPage == <<currentPage, countData, usersQuery, pages>>
postsPage == <<deleteModalOpen, postToDelete, deletePending, sent, shownPosts>>
newPostModal == <<isOpen, formTitle, formBody, message, createPending, timers, session, lastFired>>
browser == <<usersPage, postsPage, newPostModal>>

vars == <<server, browser>>

NoPost == [id |-> <<>>, user_id |-> <<>>, title |-> <<>>, body |-> <<>>, created_at |-> 0]

NoHist == [ev |-> "none", post |-> NoPost, racing |-> {}]

\* const { data: countData } = useQuery(...) before and after the response
NotLoaded == [loaded |-> FALSE, count |-> 0]
Loaded(n) == [loaded |-> TRUE, count |-> n]

\* useState<string | null>(null)
NoId == <<>>

NoFired == [from |-> 0, at |-> 0, closed |-> FALSE]

\* The components as mounted: useState initial values, queries loading.
InitBrowser ==
  /\ currentPage = 0
  /\ countData = NotLoaded
  /\ usersQuery = "loading"
  /\ pages = <<>>
  /\ deleteModalOpen = FALSE
  /\ postToDelete = NoId
  /\ deletePending = FALSE
  /\ sent = <<>>
  /\ shownPosts = PostIds
  /\ isOpen = FALSE
  /\ formTitle = <<>>
  /\ formBody = <<>>
  /\ message = ""
  /\ createPending = 0
  /\ timers = <<>>
  /\ session = 0
  /\ lastFired = NoFired

Init ==
  /\ InitBrowser
  /\ users = SeedUsers(MaxUsers)
  /\ posts = <<>>
  /\ now = 0
  /\ pc = [p \in Procs |-> "idle"]
  /\ req = [p \in Procs |-> NoReq]
  /\ loc = [p \in Procs |-> NoLoc]
  /\ resp = [p \in Procs |-> NoResp]
  /\ thrown = [p \in Procs |-> ""]
  /\ ops = [p \in Procs |-> <<>>]
  /\ hist = [i \in PostIds |-> NoHist]

\* --------------------------------------------------------------- storage
\* SELECT COUNT(*) as count FROM users WHERE id = ?
CountUsersById(userId) ==
  Cardinality({i \in DOMAIN users : users[i].id = userId})

\* selectUsersTemplate with [offset, limit]: the rows after the first
\* `offset`, at most `limit` of them, in rowid order.
SelectUsers(offset, limit) ==
  SubSeq(users, offset + 1, IF offset + limit < Len(users) THEN offset + limit ELSE Len(users))

\* selectCountOfUsersTemplate
SelectCountOfUsers == Len(users)

\* selectPostsTemplate: the rows of one user, in rowid order.
SelectPosts(userId) == SelectSeq(posts, LAMBDA r : r.user_id = userId)

HasPost(id) == \E i \in DOMAIN posts : posts[i].id = id

\* insertPostTemplate: what running it can report.  posts.id is the primary
\* key, so a row with a stored id is not added; otherwise the row is added
\* unless the statement fails.
InsertOutcomes_NoKey(row) == {"ok", "error"}

InsertOutcomes(row) ==
  IF HasPost(row.id) THEN {"error", "nochange"} ELSE {"ok", "error"}

InsertPost(row) == Append(posts, row)

\* deletePostTemplate: the table without the rows of that id.
DeletePostRows_Tombstone(id) ==
  [i \in DOMAIN posts |-> IF posts[i].id = id THEN [posts[i] EXCEPT !.title = <<>>] ELSE posts[i]]

DeletePostRows(id) == SelectSeq(posts, LAMBDA r : r.id # id)

\* ---------------------------------------------------------- request slots
\* The response is sent and the handler returns.
Finish(p, r) ==
  /\ pc' = [pc EXCEPT ![p] = "done"]
  /\ resp' = [resp EXCEPT ![p] = r]

Issue(p, stmt) ==
  /\ pc' = [pc EXCEPT ![p] = stmt]
  /\ ops' = [ops EXCEPT ![p] = Append(@, stmt)]

InternalServerError == SendError(500, "Internal server error")

\* catch (error) { console.error(...); res.status(500).send({ error: ... }) }
Catch_SendsCause(error) == SendError(500, error)

Catch(error) == InternalServerError

\* The Error a repository promise of the posts router rejects with
Rejection_OneMessage(cause) ==
  IF cause = "userExists" THEN "Failed to verify user existence"
  ELSE IF cause = "deletePost" THEN "Failed to delete post from database"
  ELSE "Failed to create post"

Rejection(cause) ==
  IF cause = "userExists" THEN "Failed to verify user existence"
  ELSE IF cause = "randomUUID" THEN "Failed to create post"
  ELSE IF cause = "insert" THEN "Failed to save post to database"
  ELSE IF cause = "changes" THEN "Post was not created"
  ELSE "Failed to delete post from database"

\* A failed repository call of the posts router: the promise rejects, the
\* handler's catch answers.
Fail(p, cause) ==
  /\ thrown' = [thrown EXCEPT ![p] = Rejection(cause)]
  /\ Finish(p, Catch(Rejection(cause)))

\* ------------------------------------------------------------ POST /posts
\* The validation of router.post("/"): the message of the 400 response, or
\* "" when the request passes.
PostValidation_BodyFirst(title, body, userId) ==
  IF Not(body) \/ TypeOf(body) # "string"
    THEN "Body is required and must be a string"
  ELSE IF Not(title) \/ TypeOf(title) # "string"
    THEN "Title is required and must be a string"
  ELSE IF Not(userId) \/ TypeOf(userId) # "string"
    THEN "User ID is required and must be a string"
  ELSE IF Len(Trim(title.s)) = 0
    THEN "Title cannot be empty or contain only whitespace"
  ELSE IF Len(Trim(body.s)) = 0
    THEN "Body cannot be empty or contain only whitespace"
  ELSE IF Len(Trim(userId.s)) = 0
    THEN "User ID cannot be empty or contain only whitespace"
  ELSE ""

PostValidation(title, body, userId) ==
  IF Not(title) \/ TypeOf(title) # "string"
    THEN "Title is required and must be a string"
  ELSE IF Not(body) \/ TypeOf(body) # "string"
    THEN "Body is required and must be a string"
  ELSE IF Not(userId) \/ TypeOf(userId) # "string"
    THEN "User ID is required and must be a string"
  ELSE IF Len(Trim(title.s)) = 0
    THEN "Title cannot be empty or contain only whitespace"
  ELSE IF Len(Trim(body.s)) = 0
    THEN "Body cannot be empty or contain only whitespace"
  ELSE IF Len(Trim(userId.s)) = 0
    THEN "User ID cannot be empty or contain only whitespace"
  ELSE ""

\* router.post("/") up to `await userExists(trimmedUserId)`
PostRequest(p, title, body, userId) ==
  /\ pc[p] = "idle"
  /\ req' = [req EXCEPT ![p] = [NoReq EXCEPT !.kind = "POST /posts",
                                  !.title = title, !.body = body, !.userId = userId]]
  /\ IF PostValidation(title, body, userId) # ""
       THEN /\ Finish(p, SendError(400, PostValidation(title, body, userId)))
            /\ UNCHANGED <<loc, ops>>
       ELSE /\ loc' = [loc EXCEPT ![p] = [NoLoc EXCEPT !.title = Trim(title.s),
                                            !.body = Trim(body.s),
                                            !.userId = Trim(userId.s)]]
            /\ Issue(p, "userExists")
            /\ UNCHANGED resp
  /\ UNCHANGED <<users, posts, now, thrown, hist, browser>>

\* userExists: the value the promise resolves to
userExists_NotNegative(userId) == CountUsersById(userId) >= 0

userExists_Unchecked(userId) == TRUE

userExists(userId) == CountUsersById(userId) > 0

\* The callback of userExists, and router.post("/") up to `await createPost`
\* (createPost draws the id and the timestamp, then issues the insert).
UserExistsCallback(p) ==
  /\ pc[p] = "userExists"
  /\ \E outcome \in {"ok", "error"}, gen \in {"ok", "throws"}, id \in PostIds :
       IF outcome = "error"
         THEN /\ gen = "ok" /\ id = PostId(1)
              /\ Fail(p, "userExists")
              /\ UNCHANGED <<loc, ops>>
       ELSE IF ~userExists(loc[p].userId)
         THEN /\ gen = "ok" /\ id = PostId(1)
              /\ Finish(p, SendError(404, "User not found"))
              /\ UNCHANGED <<loc, ops, thrown>>
       ELSE IF gen = "throws"
         THEN /\ id = PostId(1)
              /\ Fail(p, "randomUUID")
              /\ UNCHANGED <<loc, ops>>
       ELSE /\ loc' = [loc EXCEPT ![p].id = id, ![p].createdAt = now]
            /\ Issue(p, "createPost")
            /\ UNCHANGED <<resp, thrown>>
  /\ UNCHANGED <<users, posts, now, req, hist, browser>>

\* The row createPost inserts and resolves with
NewPost_Swapped(p) ==
  [id |-> loc[p].id, user_id |-> loc[p].userId, title |-> loc[p].body,
   body |-> loc[p].title, created_at |-> loc[p].createdAt]

NewPost_RawUserId(p) ==
  [id |-> loc[p].id, user_id |-> req[p].userId.s, title |-> loc[p].title,
   body |-> loc[p].body, created_at |-> loc[p].createdAt]

NewPost(p) ==
  [id |-> loc[p].id, user_id |-> loc[p].userId, title |-> loc[p].title,
   body |-> loc[p].body, created_at |-> loc[p].createdAt]

\* The callback of the insert of createPost, and the rest of router.post("/")
CreatePostCallback(p) ==
  /\ pc[p] = "createPost"
  /\ \E outcome \in InsertOutcomes(NewPost(p)) :
       IF outcome = "error"
         THEN /\ Fail(p, "insert")
              /\ UNCHANGED <<posts, hist>>
       ELSE IF outcome = "nochange"
         THEN /\ Fail(p, "changes")
              /\ UNCHANGED <<posts, hist>>
       ELSE /\ posts' = InsertPost(NewPost(p))
            /\ hist' = [hist EXCEPT ![loc[p].id] =
                          [ev |-> "created", post |-> NewPost(p), racing |-> {}]]
            /\ Finish(p, [Status(201) EXCEPT !.posts = <<NewPost(p)>>])
            /\ UNCHANGED thrown
  /\ UNCHANGED <<users, now, req, loc, ops, browser>>

\* ------------------------------------------------------ DELETE /posts/:id
\* The guard of the 400 response of router.delete("/:id")
DeleteValidation_NoTrim(id) == Not(id) \/ TypeOf(id) # "string"

DeleteValidation(id) == Not(id) \/ TypeOf(id) # "string" \/ Len(Trim(id.s)) = 0

\* const trimmedId = id.trim()
TrimmedId_Raw(id) == id.s

TrimmedId(id) == Trim(id.s)

\* Whether DELETE on the path of that id segment matches "/:id": a named
\* segment needs at least one character, so a path that ends at /posts/ does
\* not match.
MatchesDeleteRoute_Always(id) == TRUE

MatchesDeleteRoute(id) == id # Undefined /\ id # JStr(<<>>)

\* router.delete("/:id") up to `await deletePost(trimmedId)`.  A path with no
\* id segment matches no route and is answered by the router.
DeleteRequest(p, id) ==
  /\ pc[p] = "idle"
  /\ req' = [req EXCEPT ![p] = [NoReq EXCEPT !.kind = "DELETE /posts/:id", !.id = id]]
  /\ IF ~MatchesDeleteRoute(id)
       THEN /\ Finish(p, Status(404))
            /\ UNCHANGED <<loc, ops>>
     ELSE IF DeleteValidation(id)
       THEN /\ Finish(p, SendError(400, "Post ID is required"))
            /\ UNCHANGED <<loc, ops>>
     ELSE /\ loc' = [loc EXCEPT ![p] = [NoLoc EXCEPT !.id = TrimmedId(id)]]
          /\ Issue(p, "deletePost")
          /\ UNCHANGED resp
  /\ UNCHANGED <<users, posts, now, thrown, hist, browser>>

\* this.changes of the delete
DeleteChanges_Constant(id) == 1

DeleteChanges(id) == Len(posts) - Len(DeletePostRows(id))

\* deletePost: the value the promise resolves to
deletePost_NotNegative(id) == DeleteChanges(id) >= 0

deletePost_MoreThanOne(id) == DeleteChanges(id) > 1

deletePost(id) == DeleteChanges(id) > 0

\* The callback of deletePost, and the rest of router.delete("/:id")
DeletePostCallback(p) ==
  /\ pc[p] = "deletePost"
  /\ \E outcome \in {"ok", "error"} :
       IF outcome = "error"
         THEN /\ Fail(p, "deletePost")
              /\ UNCHANGED <<posts, hist>>
       ELSE /\ posts' = DeletePostRows(loc[p].id)
            /\ hist' = IF HasPost(loc[p].id)
                         THEN [hist EXCEPT ![loc[p].id] =
                                 [ev |-> "deleted", post |-> NoPost,
                                  racing |-> {q \in Procs \ {p} :
                                                pc[q] = "deletePost" /\ loc[q].id = loc[p].id}]]
                         ELSE hist
            /\ IF ~deletePost(loc[p].id)
                 THEN Finish(p, SendError(404, "Post not found"))
                 ELSE Finish(p, Status(204))
            /\ UNCHANGED thrown
  /\ UNCHANGED <<users, now, req, loc, ops, browser>>

\* -------------------------------------------------------------- GET /posts
\* router.get("/") of the posts router up to `await getPosts(userId)`
GetPostsRequest(p, userId) ==
  /\ pc[p] = "idle"
  /\ req' = [req EXCEPT ![p] = [NoReq EXCEPT !.kind = "GET /posts", !.userId = userId]]
  /\ IF Not(userId)
       THEN /\ Finish(p, SendError(400, "userId is required"))
            /\ UNCHANGED <<loc, ops>>
       ELSE /\ loc' = [loc EXCEPT ![p] = [NoLoc EXCEPT !.userId = userId.s]]
            /\ Issue(p, "getPosts")
            /\ UNCHANGED resp
  /\ UNCHANGED <<users, posts, now, thrown, hist, browser>>

\* getPosts: the value the promise resolves to
getPosts_First(userId) ==
  IF SelectPosts(userId) = <<>> THEN <<>> ELSE <<Head(SelectPosts(userId))>>

getPosts_All(userId) == posts

getPosts(userId) == SelectPosts(userId)

\* const posts = await getPosts(userId); res.send(posts)
GetPostsResponse_ChecksUser(userId) ==
  IF CountUsersById(userId) > 0
    THEN [Status(200) EXCEPT !.posts = getPosts(userId)]
    ELSE SendError(404, "User not found")

GetPostsResponse(userId) == [Status(200) EXCEPT !.posts = getPosts(userId)]

\* The callback of getPosts.  On an error the promise rejects inside a
\* handler that has no try/catch: the handler sends nothing.
GetPostsCallback(p) ==
  /\ pc[p] = "getPosts"
  /\ \E outcome \in {"ok", "error"} :
       IF outcome = "error"
         THEN /\ thrown' = [thrown EXCEPT ![p] = "SQLITE_ERROR"]
              /\ pc' = [pc EXCEPT ![p] = "unhandled"]
              /\ UNCHANGED resp
       ELSE /\ Finish(p, GetPostsResponse(loc[p].userId))
            /\ UNCHANGED thrown
  /\ UNCHANGED <<users, posts, now, req, loc, ops, hist, browser>>

\* -------------------------------------------------------------- GET /users
DefaultPageNumber == 0
DefaultPageSize == 4

PageNumber(q) == OrDefault(Number(q), DefaultPageNumber)
PageSize(q) == OrDefault(Number(q), DefaultPageSize)

\* getUsers: the OFFSET it binds
Offset_PageNumber(pageNumber, pageSize) == pageNumber

Offset(pageNumber, pageSize) == pageNumber * pageSize

\* router.get("/") of the users router up to `await getUsers(...)`
GetUsersRequest(p, pageNumber, pageSize) ==
  /\ pc[p] = "idle"
  /\ req' = [req EXCEPT ![p] = [NoReq EXCEPT !.kind = "GET /users",
                                  !.pageNumber = pageNumber, !.pageSize = pageSize]]
  /\ IF PageNumber(pageNumber) < 0 \/ PageSize(pageSize) < 1
       THEN /\ Finish(p, SendMessage(400, "Invalid page number or page size"))
            /\ UNCHANGED <<loc, ops>>
       ELSE /\ loc' = [loc EXCEPT ![p] = [NoLoc EXCEPT
                         !.offset = Offset(PageNumber(pageNumber), PageSize(pageSize)),
                         !.limit = PageSize(pageSize)]]
            /\ Issue(p, "getUsers")
            /\ UNCHANGED resp
  /\ UNCHANGED <<users, posts, now, thrown, hist, browser>>

\* x ? x.trim() : ''
TrimOrEmpty_NoTrim(x) == IF Not(x) THEN JStr(<<>>) ELSE JStr(x.s)

TrimOrEmpty(x) == IF Not(x) THEN JStr(<<>>) ELSE JStr(Trim(x.s))

formatAddress(user) ==
  [user EXCEPT !.street = TrimOrEmpty(user.street),
               !.city = TrimOrEmpty(user.city),
               !.state = TrimOrEmpty(user.state),
               !.zipcode = TrimOrEmpty(user.zipcode)]

\* The value getUsers resolves with
getUsers(offset, limit) ==
  [i \in DOMAIN SelectUsers(offset, limit) |-> formatAddress(SelectUsers(offset, limit)[i])]

\* The callback of getUsers.  On an error the promise rejects, and
\* results.map then throws a TypeError out of the callback (results is
\* undefined); the handler has no try/catch and sends nothing.
GetUsersCallback(p) ==
  /\ pc[p] = "getUsers"
  /\ \E outcome \in {"ok", "error"} :
       IF outcome = "error"
         THEN /\ thrown' = [thrown EXCEPT ![p] = "SQLITE_ERROR"]
              /\ pc' = [pc EXCEPT ![p] = "uncaught"]
              /\ UNCHANGED resp
       ELSE /\ Finish(p, [Status(200) EXCEPT !.users = getUsers(loc[p].offset, loc[p].limit)])
            /\ UNCHANGED thrown
  /\ UNCHANGED <<users, posts, now, req, loc, ops, hist, browser>>

\* -------------------------------------------------------- GET /users/count
\* router.get("/count") up to `await getUsersCount()`
GetUsersCountRequest(p) ==
  /\ pc[p] = "idle"
  /\ req' = [req EXCEPT ![p] = [NoReq EXCEPT !.kind = "GET /users/count"]]
  /\ loc' = [loc EXCEPT ![p] = NoLoc]
  /\ Issue(p, "getUsersCount")
  /\ UNCHANGED <<users, posts, now, resp, thrown, hist, browser>>

\* getUsersCount: the value the promise resolves to
getUsersCount_Posts == Len(posts)

getUsersCount == SelectCountOfUsers

\* The callback of getUsersCount.  On an error the promise rejects, and
\* results.count then throws a TypeError out of the callback (results is
\* undefined); the handler has no try/catch and sends nothing.
GetUsersCountCallback(p) ==
  /\ pc[p] = "getUsersCount"
  /\ \E outcome \in {"ok", "error"} :
       IF outcome = "error"
         THEN /\ thrown' = [thrown EXCEPT ![p] = "SQLITE_ERROR"]
              /\ pc' = [pc EXCEPT ![p] = "uncaught"]
              /\ UNCHANGED resp
       ELSE /\ Finish(p, [Status(200) EXCEPT !.count = getUsersCount])
            /\ UNCHANGED thrown
  /\ UNCHANGED <<users, posts, now, req, loc, ops, hist, browser>>

\* ------------------------------------------------------------ environment
\* The request slot is over (answered, or abandoned by the client) and free
\* for the next request.
Release(p) ==
  /\ pc[p] \in {"done", "unhandled", "uncaught"}
  /\ pc' = [pc EXCEPT ![p] = "idle"]
  /\ req' = [req EXCEPT ![p] = NoReq]
  /\ loc' = [loc EXCEPT ![p] = NoLoc]
  /\ resp' = [resp EXCEPT ![p] = NoResp]
  /\ thrown' = [thrown EXCEPT ![p] = ""]
  /\ ops' = [ops EXCEPT ![p] = <<>>]
  /\ hist' = [i \in PostIds |-> [hist[i] EXCEPT !.racing = @ \ {p}]]
  /\ UNCHANGED <<users, posts, now, browser>>

\* new Date() moves on
Tick ==
  /\ now < MaxClock
  /\ now' = now + 1
  /\ UNCHANGED <<users, posts, pc, req, loc, resp, thrown, ops, hist, browser>>

\* ------------------------------------------------------- request inputs
\* Request field values: absent, not a string, empty, blank, padded, plain.
TitleValues == {Undefined, JNum(7), JStr(<<>>), JStr(<<" ">>), JStr(<<" ", "t", " ">>)}
BodyValues == {Undefined, JNull, JStr(<<>>), JStr(<<" ", " ">>), JStr(<<"b", " ">>)}
UserIdValues == {Undefined, JNum(0), JStr(<<>>), JStr(<<" ">>),
                 JStr(<<" ">> \o UserId(1)), JStr(UserId(MaxUsers)), JStr(UserId(MaxUsers + 1))}
PostIdValues == {Undefined, JStr(<<" ", " ">>), JStr(<<"x">>)}
                  \cup {JStr(i) : i \in PostIds} \cup {JStr(<<" ">> \o PostId(1) \o <<" ">>)}
QueryUserIds == {Undefined, JStr(<<>>), JStr(UserId(1)), JStr(UserId(MaxUsers)),
                 JStr(UserId(MaxUsers + 1))}
PageNumberValues == {Undefined, JStr(<<"a">>), JStr(<<"-", "1">>), JStr(<<"0">>), JStr(<<"1">>),
                     JStr(<<"2">>)}
PageSizeValues == {Undefined, JStr(<<"a">>), JStr(<<"-", "1">>), JStr(<<"0">>),
                   JStr(<<"1">>), JStr(<<"2">>)}

\* The requests of the concurrent runs: the posts endpoints, which share the
\* posts table, with one value of each kind.
ConcTitles == {JStr(<<"t", " ">>)}
ConcBodies == {JStr(<<"b">>)}
ConcUserIds == {JStr(<<" ">>), JStr(UserId(1) \o <<" ">>), JStr(UserId(MaxUsers + 1))}
ConcPostIds == {JStr(<<" ">>)} \cup {JStr(i) : i \in PostIds}
ConcQueryUserIds == {Undefined, JStr(UserId(1)), JStr(UserId(MaxUsers + 1))}

PostsRequests(p, titles, bodies, userIds, postIds, queryUserIds) ==
  \/ \E title \in titles, body \in bodies, userId \in userIds :
       PostRequest(p, title, body, userId)
  \/ \E id \in postIds : DeleteRequest(p, id)
  \/ \E userId \in queryUserIds : GetPostsRequest(p, userId)

PostsCallbacks(p) ==
  \/ UserExistsCallback(p)
  \/ CreatePostCallback(p)
  \/ DeletePostCallback(p)
  \/ GetPostsCallback(p)
  \/ Release(p)

UsersRequests(p) ==
  \/ \E pageNumber \in PageNumberValues, pageSize \in PageSizeValues :
       GetUsersRequest(p, pageNumber, pageSize)
  \/ GetUsersCountRequest(p)

UsersCallbacks(p) ==
  \/ GetUsersCallback(p)
  \/ GetUsersCountCallback(p)

\* One request at a time, every endpoint, every kind of input.
Next ==
  \/ PostsRequests("r1", TitleValues, BodyValues, UserIdValues, PostIdValues, QueryUserIds)
  \/ PostsCallbacks("r1")
  \/ UsersRequests("r1")
  \/ UsersCallbacks("r1")
  \/ Tick

Spec == Init /\ [][Next]_vars

\* The users endpoints over every seeded users table, the empty one included.
InitUsers ==
  /\ InitBrowser
  /\ users \in {SeedUsers(k) : k \in 0..MaxUsers}
  /\ posts = <<>>
  /\ now = 0
  /\ pc = [p \in Procs |-> "idle"]
  /\ req = [p \in Procs |-> NoReq]
  /\ loc = [p \in Procs |-> NoLoc]
  /\ resp = [p \in Procs |-> NoResp]
  /\ thrown = [p \in Procs |-> ""]
  /\ ops = [p \in Procs |-> <<>>]
  /\ hist = [i \in PostIds |-> NoHist]

NextUsers ==
  \/ UsersRequests("r1")
  \/ UsersCallbacks("r1")
  \/ Release("r1")

SpecUsers == InitUsers /\ [][NextUsers]_vars

\* Requests to the posts endpoints in flight together.
NextConc ==
  \/ \E p \in Procs :
       PostsRequests(p, ConcTitles, ConcBodies, ConcUserIds, ConcPostIds, ConcQueryUserIds)
  \/ \E p \in Procs : PostsCallbacks(p)
  \/ Tick

SpecConc == Init /\ [][NextConc]_vars

\* ============================================================== browser
Max(a, b) == IF a > b THEN a ELSE b
Min(a, b) == IF a < b THEN a ELSE b

\* ------------------------------------------------------------- Pagination
maxVisible == 5

\* renderPages: `start` after both adjustments
WindowStart(page, totalPages) ==
  IF page >= totalPages - 2 THEN Max(0, totalPages - maxVisible) ELSE Max(0, page - 2)

\* renderPages: `end` after both adjustments
WindowEnd_Unclamped(page, totalPages) ==
  IF page <= 1 THEN maxVisible - 1 ELSE page + 2

WindowEnd(page, totalPages) ==
  IF page <= 1 THEN Min(totalPages - 1, maxVisible - 1) ELSE Min(totalPages - 1, page + 2)

\* The elements renderPages pushes: a page button, or an ellipsis
PageButton(i) == [kind |-> "button", page |-> i]
DotsStart == [kind |-> "dots-start", page |-> 0]
DotsEnd == [kind |-> "dots-end", page |-> 0]

renderPages(page, totalPages) ==
  LET start == WindowStart(page, totalPages)
      end == WindowEnd(page, totalPages)
  IN (IF start > 0
        THEN <<PageButton(0)>> \o (IF start > 1 THEN <<DotsStart>> ELSE <<>>)
        ELSE <<>>)
     \o [k \in 1..(end - start + 1) |-> PageButton(start + k - 1)]
     \o (IF end < totalPages - 1
           THEN (IF end < totalPages - 2 THEN <<DotsEnd>> ELSE <<>>)
                  \o <<PageButton(totalPages - 1)>>
           ELSE <<>>)

\* disabled={currentPage === 0}
PreviousDisabled(page) == page = 0

\* disabled={currentPage === totalPages - 1}
NextDisabled(page, totalPages) == page = totalPages - 1

\* -------------------------------------------------------------- UsersPage
PAGE_SIZE == 4

\* countData?.count || 0
TotalUsers(data) == IF data.loaded THEN data.count ELSE 0

\* Math.ceil(totalUsers / PAGE_SIZE)
TotalPages(data) == (TotalUsers(data) + PAGE_SIZE - 1) \div PAGE_SIZE

\* What the Pagination shows after a render: nothing while the users query
\* is loading or has failed.
Rendered(query, page, data) ==
  IF query = "success" THEN renderPages(page, TotalPages(data)) ELSE <<>>

\* The users of the current page arrive.
UsersLoaded ==
  /\ usersQuery = "loading"
  /\ usersQuery' = "success"
  /\ pages' = Rendered("success", currentPage, countData)
  /\ UNCHANGED <<currentPage, countData, server, postsPage, newPostModal>>

\* The users query fails: the page shows the error and no Pagination.
UsersFailed ==
  /\ usersQuery = "loading"
  /\ usersQuery' = "error"
  /\ pages' = <<>>
  /\ UNCHANGED <<currentPage, countData, server, postsPage, newPostModal>>

\* The count arrives.
CountLoaded(n) ==
  /\ ~countData.loaded
  /\ countData' = Loaded(n)
  /\ pages' = Rendered(usersQuery, currentPage, Loaded(n))
  /\ UNCHANGED <<currentPage, usersQuery, server, postsPage, newPostModal>>

\* handlePageChange: setCurrentPage(page); the users query of the new page
\* is loading unless its data is cached.
handlePageChange(page) ==
  /\ currentPage' = page
  /\ \E query \in {"loading", "success"} :
       /\ usersQuery' = query
       /\ pages' = Rendered(query, page, countData)
  /\ UNCHANGED <<countData, server, postsPage, newPostModal>>

ClickPrevious ==
  /\ usersQuery = "success"
  /\ ~PreviousDisabled(currentPage)
  /\ handlePageChange(currentPage - 1)

ClickNext ==
  /\ usersQuery = "success"
  /\ ~NextDisabled(currentPage, TotalPages(countData))
  /\ currentPage < MaxCount
  /\ handlePageChange(currentPage + 1)

ClickPage(k) ==
  /\ usersQuery = "success"
  /\ k \in DOMAIN pages
  /\ pages[k].kind = "button"
  /\ handlePageChange(pages[k].page)

NextUsersPage ==
  \/ UsersLoaded
  \/ UsersFailed
  \/ \E n \in 0..MaxCount : CountLoaded(n)
  \/ ClickPrevious
  \/ ClickNext
  \/ \E k \in DOMAIN pages : ClickPage(k)

SpecUsersPage == Init /\ [][NextUsersPage]_vars

\* -------------------------------------------------- PostsPage: deleting
\* disabled={deletePostMutation.isPending} of the delete button of a card
CardDeleteDisabled_Never == FALSE

CardDeleteDisabled == deletePending

\* handleDeletePost, from the delete button of the card of a shown post
handleDeletePost(postId) ==
  /\ postId \in shownPosts
  /\ ~CardDeleteDisabled
  /\ postToDelete' = postId
  /\ deleteModalOpen' = TRUE
  /\ UNCHANGED <<deletePending, sent, shownPosts, server, usersPage, newPostModal>>

\* disabled={isDeleting} of both buttons of the dialog, which is rendered
\* only when isOpen
DialogButtonsEnabled == deleteModalOpen /\ ~deletePending

\* confirmDelete, from the Delete button of the dialog
confirmDelete ==
  /\ DialogButtonsEnabled
  /\ Len(sent) < MaxSent
  /\ IF postToDelete # NoId
       THEN /\ sent' = Append(sent, postToDelete)
            /\ deletePending' = TRUE
            /\ deleteModalOpen' = FALSE
            /\ postToDelete' = NoId
       ELSE UNCHANGED <<sent, deletePending, deleteModalOpen, postToDelete>>
  /\ UNCHANGED <<shownPosts, server, usersPage, newPostModal>>

\* cancelDelete, from the Cancel button of the dialog
cancelDelete ==
  /\ DialogButtonsEnabled
  /\ deleteModalOpen' = FALSE
  /\ postToDelete' = NoId
  /\ UNCHANGED <<deletePending, sent, shownPosts, server, usersPage, newPostModal>>

\* The delete request is answered 204: onSuccess invalidates the posts
\* query, and the refetched list has the post no more.
DeleteSucceeded ==
  /\ deletePending
  /\ deletePending' = FALSE
  /\ shownPosts' = shownPosts \ {sent[Len(sent)]}
  /\ UNCHANGED <<deleteModalOpen, postToDelete, sent, server, usersPage, newPostModal>>

\* The delete request fails: onError alerts, the list stays.
DeleteFailed ==
  /\ deletePending
  /\ deletePending' = FALSE
  /\ UNCHANGED <<deleteModalOpen, postToDelete, sent, shownPosts, server, usersPage, newPostModal>>

NextPostsPage ==
  \/ \E postId \in PostIds : handleDeletePost(postId)
  \/ confirmDelete
  \/ cancelDelete
  \/ DeleteSucceeded
  \/ DeleteFailed

SpecPostsPage == Init /\ [][NextPostsPage]_vars

\* ------------------------------------------------------------ NewPostModal
\* Values typed into the title and content inputs
FormValues == {<<>>, <<" ">>, <<"t", " ">>}

\* openModal, from the New Post card (rendered while the modal is closed)
openModal ==
  /\ ~isOpen
  /\ session < MaxSessions
  /\ isOpen' = TRUE
  /\ message' = ""
  /\ formTitle' = <<>>
  /\ formBody' = <<>>
  /\ session' = session + 1
  /\ UNCHANGED <<createPending, timers, lastFired, server, usersPage, postsPage>>

\* createPostMutation.isPending
IsPending == createPending # 0

\* closeModal, from the Cancel button (disabled while the mutation is pending)
ClickCancel ==
  /\ isOpen
  /\ ~IsPending
  /\ isOpen' = FALSE
  /\ UNCHANGED <<formTitle, formBody, message, createPending, timers, session, lastFired,
                 server, usersPage, postsPage>>

\* closeModal, from a click on the overlay
ClickOverlay ==
  /\ isOpen
  /\ isOpen' = FALSE
  /\ UNCHANGED <<formTitle, formBody, message, createPending, timers, session, lastFired,
                 server, usersPage, postsPage>>

\* onChange of the title input (disabled while the mutation is pending)
SetTitle(value) ==
  /\ isOpen
  /\ ~IsPending
  /\ formTitle' = value
  /\ UNCHANGED <<isOpen, formBody, message, createPending, timers, session, lastFired,
                 server, usersPage, postsPage>>

\* onChange of the content textarea
SetBody(value) ==
  /\ isOpen
  /\ ~IsPending
  /\ formBody' = value
  /\ UNCHANGED <<isOpen, formTitle, message, createPending, timers, session, lastFired,
                 server, usersPage, postsPage>>

\* handleSubmit, from the Publish button (disabled while the mutation is
\* pending)
handleSubmit ==
  /\ isOpen
  /\ ~IsPending
  /\ IF Trim(formTitle) = <<>> \/ Trim(formBody) = <<>>
       THEN /\ message' = "Title and content are required."
            /\ UNCHANGED createPending
       ELSE /\ message' = "Publishing post..."
            /\ createPending' = session
  /\ UNCHANGED <<isOpen, formTitle, formBody, timers, session, lastFired,
                 server, usersPage, postsPage>>

\* onSuccess: the message, and setTimeout(() => { closeModal(); setMessage('') }, 1000)
CreateSucceeded ==
  /\ IsPending
  /\ Len(timers) < MaxTimers
  /\ message' = "Post published successfully!"
  /\ timers' = Append(timers, createPending)
  /\ createPending' = 0
  /\ UNCHANGED <<isOpen, formTitle, formBody, session, lastFired, server, usersPage, postsPage>>

\* onError
CreateFailed ==
  /\ IsPending
  /\ message' = "Failed to publish post. Please try again."
  /\ createPending' = 0
  /\ UNCHANGED <<isOpen, formTitle, formBody, timers, session, lastFired,
                 server, usersPage, postsPage>>

\* The callback of the oldest setTimeout runs; nothing cancels a timer.
DelayedClose ==
  /\ timers # <<>>
  /\ isOpen' = FALSE
  /\ message' = ""
  /\ timers' = Tail(timers)
  /\ lastFired' = [from |-> Head(timers), at |-> session, closed |-> isOpen]
  /\ UNCHANGED <<formTitle, formBody, createPending, session, server, usersPage, postsPage>>

NextNewPostModal ==
  \/ openModal
  \/ ClickCancel
  \/ ClickOverlay
  \/ \E value \in FormValues : SetTitle(value)
  \/ \E value \in FormValues : SetBody(value)
  \/ handleSubmit
  \/ CreateSucceeded
  \/ CreateFailed
  \/ DelayedClose

SpecNewPostModal == Init /\ [][NextNewPostModal]_vars

\* ================================================================ claims
Blank(str) == \A i \in 1..Len(str) : str[i] = " "

\* t is s without its leading and trailing blanks
IsTrimOf(s, t) ==
  /\ t # <<>> => t[1] # " " /\ t[Len(t)] # " "
  /\ \E i \in 0..Len(s) :
       /\ i + Len(t) <= Len(s)
       /\ SubSeq(s, i + 1, i + Len(t)) = t
       /\ \A k \in 1..Len(s) : (k <= i \/ k > i + Len(t)) => s[k] = " "

Rows(table) == {table[i] : i \in DOMAIN table}

IsPost(p) == req[p].kind = "POST /posts"
IsDelete(p) == req[p].kind = "DELETE /posts/:id"
IsGetPosts(p) == req[p].kind = "GET /posts"
IsGetUsers(p) == req[p].kind = "GET /users"

Answered(p) == pc[p] = "done"

\* The message the claim assigns to a POST body, when a field counts as
\* failing steps 1-3 exactly when `bad` holds of it.
StepMessage(r, bad(_)) ==
  IF bad(r.title) THEN "Title is required and must be a string"
  ELSE IF bad(r.body) THEN "Body is required and must be a string"
  ELSE IF bad(r.userId) THEN "User ID is required and must be a string"
  ELSE IF Blank(r.title.s) THEN "Title cannot be empty or contain only whitespace"
  ELSE IF Blank(r.body.s) THEN "Body cannot be empty or contain only whitespace"
  ELSE IF Blank(r.userId.s) THEN "User ID cannot be empty or contain only whitespace"
  ELSE ""

NotAString(x) == x.t # "string"
NotANonEmptyString(x) == x.t # "string" \/ x.s = <<>>

ValidationAnswer(p, bad(_)) ==
  IF StepMessage(req[p], bad) # ""
    THEN resp[p] = SendError(400, StepMessage(req[p], bad))
    ELSE resp[p].status # 400

\* C1 as stated: steps 1-3 fail for a field that is missing or not a string,
\* step 4 for a string that is empty after trimming, and the 400 response is
\* the one of the earliest failing step.
C1_AsStated == \A p \in Procs : Answered(p) /\ IsPost(p) => ValidationAnswer(p, NotAString)

\* C1 amended: steps 1-3 also fail for the empty string "", so step 4 answers
\* only non-empty strings of whitespace; the 400 response is the one of the
\* earliest failing step, for every combination of invalid fields.
C1_ValidationOrder ==
  \A p \in Procs : Answered(p) /\ IsPost(p) => ValidationAnswer(p, NotANonEmptyString)

\* A blank title and a missing body: step 2 answers before step 4.
C1_Witness ==
  \E p \in Procs :
    /\ Answered(p) /\ IsPost(p)
    /\ req[p].title = JStr(<<" ">>) /\ req[p].body = Undefined
    /\ resp[p] = SendError(400, "Body is required and must be a string")

KnownUser(userId) == \E i \in DOMAIN users : users[i].id = userId

\* C2: when the existence check of a validated POST /posts is answered
\* without a storage fault for a user id that no user row has, the response
\* is 404 "User not found", createPost is not called and the posts table is
\* unchanged.
C2_UnknownUser ==
  [][\A p \in Procs :
       (/\ pc[p] = "userExists" /\ pc'[p] # "userExists"
        /\ ~KnownUser(loc[p].userId)
        /\ thrown'[p] = "")
       => /\ pc'[p] = "done"
          /\ resp'[p] = SendError(404, "User not found")
          /\ ops'[p] = <<"userExists">>
          /\ posts' = posts]_vars

C2_Witness ==
  \E p \in Procs :
    /\ Answered(p) /\ IsPost(p)
    /\ resp[p] = SendError(404, "User not found")
    /\ ~KnownUser(loc[p].userId)
    /\ ops[p] = <<"userExists">>

\* C3: when the insert of a POST /posts is answered without a storage fault,
\* the response is 201 with a post whose user_id, title and body are the
\* trimmed request fields and whose id and created_at are the server's, and
\* exactly that row is added to the posts table.
C3_Created ==
  [][\A p \in Procs :
       (pc[p] = "createPost" /\ pc'[p] # "createPost" /\ thrown'[p] = "")
       => /\ pc'[p] = "done"
          /\ resp'[p].status = 201
          /\ Len(resp'[p].posts) = 1
          /\ LET post == resp'[p].posts[1] IN
               /\ IsTrimOf(req[p].userId.s, post.user_id)
               /\ IsTrimOf(req[p].title.s, post.title)
               /\ IsTrimOf(req[p].body.s, post.body)
               /\ post.id \in PostIds
               /\ post.created_at \in 0..now
               /\ posts' = Append(posts, post)]_vars

\* A 201 whose request fields were padded
C3_Witness ==
  \E p \in Procs :
    /\ Answered(p) /\ IsPost(p) /\ resp[p].status = 201
    /\ req[p].title.s # resp[p].posts[1].title
    /\ req[p].userId.s # resp[p].posts[1].user_id
    /\ resp[p].posts[1] \in Rows(posts)

\* C4: every stored post has the id of a stored user as its user_id.
C4_UserIdRefersToUser == \A i \in DOMAIN posts : KnownUser(posts[i].user_id)

\* A stored post while another POST /posts is between its existence check
\* and its insert.
C4_Witness ==
  /\ posts # <<>>
  /\ \E p \in Procs : pc[p] = "createPost"

\* C5: a GET /posts?userId=U that is answered returns 200 with every post
\* that a POST /posts answered 201 for U and that has not been deleted since.
C5_RoundTrip ==
  [][\A p \in Procs :
       (pc[p] = "getPosts" /\ pc'[p] = "done")
       => /\ resp'[p].status = 200
          /\ \A i \in PostIds :
               (hist[i].ev = "created" /\ hist[i].post.user_id = req[p].userId.s)
               => hist[i].post \in Rows(resp'[p].posts)]_vars

C5_Witness ==
  \E p \in Procs, i \in PostIds :
    /\ Answered(p) /\ IsGetPosts(p) /\ resp[p].status = 200
    /\ hist[i].ev = "created"
    /\ hist[i].post \in Rows(resp[p].posts)

\* C6: a DELETE /posts/:id answered without a storage fault is 204 when the
\* last request that changed the post of that id created it, and 404 "Post
\* not found" when the last one deleted it.
C6_DeleteTwice ==
  [][\A p \in Procs :
       (/\ pc[p] = "deletePost" /\ pc'[p] # "deletePost" /\ thrown'[p] = ""
        /\ loc[p].id \in PostIds)
       => /\ hist[loc[p].id].ev = "created"
               => resp'[p] = Status(204) /\ hist'[loc[p].id].ev = "deleted"
          /\ hist[loc[p].id].ev = "deleted"
               => resp'[p] = SendError(404, "Post not found")]_vars

\* The second delete of a post: 404 after its 204
C6_Witness ==
  \E p \in Procs :
    /\ Answered(p) /\ IsDelete(p)
    /\ resp[p] = SendError(404, "Post not found")
    /\ loc[p].id \in PostIds
    /\ hist[loc[p].id].ev = "deleted"

\* C7: a DELETE /posts/:id whose id is only whitespace is answered 400 "Post
\* ID is required" without a storage statement; one whose trimmed id matches
\* no stored post is answered 404 "Post not found" unless storage fails.
C7_DeleteErrors ==
  [][\A p \in Procs :
       /\ (/\ pc[p] = "idle" /\ pc'[p] # "idle" /\ req'[p].kind = "DELETE /posts/:id"
           /\ req'[p].id.t = "string" /\ req'[p].id.s # <<>> /\ Blank(req'[p].id.s))
          => /\ pc'[p] = "done"
             /\ resp'[p] = SendError(400, "Post ID is required")
             /\ ops'[p] = <<>>
       /\ (/\ pc[p] = "deletePost" /\ pc'[p] # "deletePost" /\ thrown'[p] = ""
           /\ \A i \in DOMAIN posts : posts[i].id # loc[p].id)
          => /\ resp'[p] = SendError(404, "Post not found")
             /\ posts' = posts]_vars

C7_WitnessBlank ==
  \E p \in Procs :
    /\ Answered(p) /\ IsDelete(p)
    /\ req[p].id = JStr(<<" ", " ">>)
    /\ resp[p] = SendError(400, "Post ID is required")

\* C8: a DELETE /posts/:id whose id, trimmed, is the id of a stored post and
\* whose delete is answered without a storage fault responds 204, and removes
\* that post and no other; it responds 204 exactly when a row was removed.
C8_DeleteRemoves ==
  [][\A p \in Procs :
       (pc[p] = "deletePost" /\ pc'[p] # "deletePost" /\ thrown'[p] = "")
       => /\ \A r \in Rows(posts) :
               IsTrimOf(req[p].id.s, r.id)
               => /\ resp'[p] = Status(204)
                  /\ Rows(posts') = Rows(posts) \ {r}
                  /\ Len(posts') = Len(posts) - 1
                  /\ r \notin Rows(SelectSeq(posts', LAMBDA q : q.user_id = r.user_id))
          /\ resp'[p].status = 204 <=> Len(posts') < Len(posts)
          /\ Rows(posts') \subseteq Rows(posts)]_vars

\* A 204 for a padded id that left another post stored
C8_Witness ==
  \E p \in Procs :
    /\ Answered(p) /\ IsDelete(p) /\ resp[p] = Status(204)
    /\ req[p].id.s # loc[p].id
    /\ posts # <<>>
    /\ \A i \in DOMAIN posts : posts[i].id # loc[p].id

Numeric(q) == ~Number(q).nan

\* C9 as stated: GET /users is answered 400, without calling getUsers, when
\* the numeric pageNumber is below 0 or the numeric pageSize is below 1, and
\* 200 otherwise.
C9_AsStated ==
  \A p \in Procs :
    Answered(p) /\ IsGetUsers(p)
    => IF \/ Numeric(req[p].pageNumber) /\ Number(req[p].pageNumber).n < 0
          \/ Numeric(req[p].pageSize) /\ Number(req[p].pageSize).n < 1
         THEN resp[p].status = 400 /\ ops[p] = <<>>
         ELSE resp[p].status = 200

\* C10 as stated: the page number and page size GET /users passes to getUsers
\* are the client's numeric values, and 0 and 4 when the parameter is absent
\* or not numeric.
C10_AsStated ==
  \A p \in Procs :
    pc[p] = "getUsers"
    => LET pageNumber == IF Numeric(req[p].pageNumber) THEN Number(req[p].pageNumber).n ELSE 0
           pageSize == IF Numeric(req[p].pageSize) THEN Number(req[p].pageSize).n ELSE 4
       IN /\ loc[p].limit = pageSize
          /\ loc[p].offset = pageNumber * pageSize

IsGetUsersCount(p) == req[p].kind = "GET /users/count"

\* C11: a getUsers(pageNumber, pageSize) that resolves, for pageNumber >= 0
\* and pageSize >= 1 and every users table, returns at most pageSize users,
\* the ones stored from offset pageNumber * pageSize on, and no more than
\* count - pageNumber * pageSize of them when that is positive.
C11_Page ==
  [][\A p \in Procs :
       (pc[p] = "getUsers" /\ pc'[p] = "done")
       => LET pageNumber == PageNumber(req[p].pageNumber)
              pageSize == PageSize(req[p].pageSize)
              got == resp'[p].users
          IN /\ pageNumber >= 0 /\ pageSize >= 1
             /\ Len(got) <= pageSize
             /\ \A i \in 1..Len(got) :
                  /\ pageNumber * pageSize + i <= Len(users)
                  /\ got[i].id = users[pageNumber * pageSize + i].id
             /\ Len(users) - pageNumber * pageSize > 0
                  => Len(got) <= Len(users) - pageNumber * pageSize]_vars

\* The second page of size 1 of a table of at least two users
C11_Witness ==
  \E p \in Procs :
    /\ Answered(p) /\ IsGetUsers(p) /\ resp[p].status = 200
    /\ req[p].pageNumber = JStr(<<"1">>) /\ req[p].pageSize = JStr(<<"1">>)
    /\ Len(resp[p].users) = 1
    /\ resp[p].users[1].id = users[2].id

\* C12: no step changes the users table, and every answer of GET
\* /users/count carries the number of seeded users.
C12_UsersReadOnly ==
  [][/\ users' = users
     /\ \A p \in Procs :
          (pc[p] = "getUsersCount" /\ pc'[p] = "done")
          => resp'[p] = [Status(200) EXCEPT !.count = Len(SeedUsers(MaxUsers))]]_vars

\* The count answered after posts were created
C12_Witness ==
  \E p \in Procs :
    /\ Answered(p) /\ IsGetUsersCount(p)
    /\ resp[p].count = Len(SeedUsers(MaxUsers))
    /\ Len(posts) = 1
    /\ users = SeedUsers(MaxUsers)

\* C13: GET /posts is answered 400, without a storage statement, when userId
\* is absent or empty; otherwise its answer is 200 with exactly the stored
\* posts of that user_id, each once, and the only statement issued is the
\* select (no existence check).
C13_GetPosts ==
  [][\A p \in Procs :
       /\ (pc[p] = "idle" /\ pc'[p] # "idle" /\ req'[p].kind = "GET /posts")
          => IF req'[p].userId.t = "undefined" \/ req'[p].userId.s = <<>>
               THEN /\ pc'[p] = "done"
                    /\ resp'[p] = SendError(400, "userId is required")
                    /\ ops'[p] = <<>>
               ELSE pc'[p] = "getPosts" /\ resp'[p].status = 0
       /\ (pc[p] = "getPosts" /\ pc'[p] = "done")
          => /\ resp'[p].status = 200
             /\ Rows(resp'[p].posts) = {r \in Rows(posts) : r.user_id = req[p].userId.s}
             /\ Len(resp'[p].posts) = Cardinality(Rows(resp'[p].posts))
             /\ ops'[p] = <<"getPosts">>]_vars

\* The posts of one user answered while another user has a post too
C13_Witness ==
  \E p \in Procs :
    /\ Answered(p) /\ IsGetPosts(p) /\ resp[p].status = 200
    /\ Len(resp[p].posts) = 1
    /\ Len(posts) = 2
    /\ \E r \in Rows(posts) : r.user_id # req[p].userId.s

\* C14: a GET /posts?userId=X that is answered when no stored post has
\* user_id X gets 200 with [], whether or not a user row has id X; it equals
\* every such answer already given for an X of the other kind.
C14_SameForUnknownUser ==
  [][\A p \in Procs :
       (/\ pc[p] = "getPosts" /\ pc'[p] = "done"
        /\ \A r \in Rows(posts) : r.user_id # req[p].userId.s)
       => /\ resp'[p] = Status(200)
          /\ \A q \in Procs \ {p} :
               (/\ Answered(q) /\ IsGetPosts(q) /\ resp[q].posts = <<>>
                /\ req[q].userId.t = "string" /\ req[q].userId.s # <<>>
                /\ KnownUser(req[q].userId.s) # KnownUser(req[p].userId.s))
               => resp'[p] = resp[q]]_vars

\* Both answers side by side: X a user without posts, X no user
C14_Witness ==
  \E p, q \in Procs :
    /\ Answered(p) /\ IsGetPosts(p) /\ KnownUser(req[p].userId.s)
    /\ Answered(q) /\ IsGetPosts(q) /\ ~KnownUser(req[q].userId.s)
    /\ req[q].userId.s # <<>>
    /\ resp[p] = Status(200) /\ resp[q] = Status(200)

\* The handler of the slot has nothing more to run.
Over(p) == pc[p] \in {"done", "unhandled", "uncaught"}

\* C15 as stated: on every endpoint, a request whose repository call failed
\* is answered 500 with the generic message of the router.
C15_AsStated ==
  \A p \in Procs : Over(p) /\ thrown[p] # "" => resp[p] = InternalServerError

Failed(p) == Answered(p) /\ (IsPost(p) \/ IsDelete(p)) /\ thrown[p] # ""

\* C16: every POST /posts and DELETE /posts/:id whose repository call failed
\* is answered with status 500 and body {error: "Internal server error"}, so
\* any two of them get the same answer whatever the two causes.
C16_SameAnswerForEveryCause ==
  \A p, q \in Procs :
    Failed(p) /\ Failed(q)
    => /\ resp[p] = resp[q]
       /\ resp[p].status = 500 /\ resp[p].key = "error"
       /\ resp[p].msg = "Internal server error"

\* Two failures of different causes, answered
C16_Witness ==
  \E p, q \in Procs :
    /\ Failed(p) /\ Failed(q)
    /\ IsPost(p) /\ IsDelete(q)
    /\ thrown[p] # thrown[q]

\* C17: a step of a POST /posts or DELETE /posts/:id request that changes
\* the posts table is the step that answers it 201 or 204; an answer 201
\* comes with exactly its row added, an answer 204 with a row removed, and
\* every other answer with the posts table unchanged.
C17_NoPartialSuccess ==
  [][\A p \in Procs :
       (pc[p] # pc'[p] /\ req'[p].kind \in {"POST /posts", "DELETE /posts/:id"})
       => /\ resp'[p].status = 201
               <=> (IsPost(p) /\ Len(resp'[p].posts) = 1 /\ posts' = Append(posts, resp'[p].posts[1]))
          /\ resp'[p].status = 204
               <=> (IsDelete(p) /\ Len(posts') < Len(posts) /\ Rows(posts') \subseteq Rows(posts))
          /\ resp'[p].status \notin {201, 204} => posts' = posts]_vars

\* A 500 of a POST whose insert was issued, with the table still empty
C17_Witness ==
  \E p \in Procs :
    /\ Answered(p) /\ IsPost(p) /\ resp[p].status = 500
    /\ ops[p] = <<"userExists", "createPost">>
    /\ posts = <<>>

\* C18 as stated: a request whose storage callbacks have all been invoked
\* has received a response.
C18_AsStated == \A p \in Procs : Over(p) => resp[p].status # 0

\* C19: the step that ends createPost adds a row exactly when it resolves
\* with a Post (the 201); when it rejects, after an insert error or zero
\* rows, or at id generation, no Post is answered and no row is added; and a
\* failure after the insert was issued carries another message than a
\* failure before it.
C19_CreatePostFailures ==
  [][\A p \in Procs :
       /\ (pc[p] = "createPost" /\ pc'[p] # "createPost")
          => /\ thrown'[p] = "" <=> Len(posts') = Len(posts) + 1
             /\ thrown'[p] = "" <=> resp'[p].posts = <<NewPost(p)>>
             /\ thrown'[p] # "" => posts' = posts /\ resp'[p].posts = <<>>
       /\ (pc[p] = "userExists" /\ pc'[p] = "done" /\ thrown'[p] # "")
          => posts' = posts /\ resp'[p].posts = <<>>
       /\ \A q \in Procs :
            (/\ pc'[p] = "done" /\ pc'[q] = "done"
             /\ thrown'[p] # "" /\ thrown'[q] # ""
             /\ ops'[p] = <<"userExists", "createPost">>
             /\ ops'[q] = <<"userExists">>)
            => thrown'[p] # thrown'[q]]_vars

\* A failure of the insert next to a failure before the insert
C19_Witness ==
  \E p, q \in Procs :
    /\ Answered(p) /\ thrown[p] = "Post was not created"
    /\ Answered(q) /\ thrown[q] = "Failed to create post"
    /\ ops[p] = <<"userExists", "createPost">>
    /\ ops[q] = <<"userExists">>

\* C20 as stated: a failed query of getUsersCount or getUsers settles the
\* call as a failure and raises nothing further inside the storage callback.
C20_AsStated ==
  \A p \in Procs :
    (IsGetUsers(p) \/ IsGetUsersCount(p)) /\ Over(p) /\ resp[p].status # 400
    => /\ thrown[p] # "" <=> resp[p].status = 0
       /\ pc[p] # "uncaught"

AddressFields == {"street", "city", "state", "zipcode"}

\* C21: every user a getUsers that resolves returns is the stored row of its
\* position with id and name unchanged and with each of street, city, state
\* and zipcode a string, never null, without leading or trailing whitespace:
\* "" for a stored null or empty value, the trimmed value otherwise; and
\* formatAddress leaves a returned user as it is.
C21_Normalized ==
  [][\A p \in Procs :
       (pc[p] = "getUsers" /\ pc'[p] = "done")
       => \A i \in 1..Len(resp'[p].users) :
            LET got == resp'[p].users[i]
                row == users[loc[p].offset + i]
            IN /\ got.id = row.id /\ got.name = row.name
               /\ DOMAIN got = DOMAIN row
               /\ \A f \in AddressFields :
                    /\ got[f].t = "string"
                    /\ got[f] # JNull
                    /\ IF row[f] = JNull \/ row[f] = JStr(<<>>)
                         THEN got[f] = JStr(<<>>)
                         ELSE IsTrimOf(row[f].s, got[f].s)
               /\ formatAddress(got) = got]_vars

\* A returned user whose stored street was null and whose stored state was
\* padded
C21_Witness ==
  \E p \in Procs :
    /\ Answered(p) /\ IsGetUsers(p) /\ resp[p].status = 200
    /\ Len(resp[p].users) >= 1
    /\ users[loc[p].offset + 1].street = JNull
    /\ users[loc[p].offset + 1].state = JStr(<<" ", "a">>)
    /\ resp[p].users[1].street = JStr(<<>>)
    /\ resp[p].users[1].state = JStr(<<"a">>)

\* C22: after every step no two stored posts share an id, and a createPost
\* that resolves used an id that no stored post had, also while another POST
\* /posts is in flight.
C22_UniqueIds ==
  [][/\ \A i, j \in DOMAIN posts' : posts'[i].id = posts'[j].id => i = j
     /\ \A p \in Procs :
          (pc[p] = "createPost" /\ pc'[p] = "done" /\ resp'[p].status = 201)
          => /\ \A i \in DOMAIN posts : posts[i].id # resp'[p].posts[1].id
             /\ Len(posts') = Len(posts) + 1]_vars

\* Two POST /posts drew the same id: one is stored, the other was refused
C22_Witness ==
  \E p, q \in Procs :
    /\ p # q
    /\ Answered(p) /\ IsPost(p) /\ resp[p].status = 201
    /\ Answered(q) /\ IsPost(q) /\ resp[q].status = 500
    /\ thrown[q] = "Post was not created"
    /\ loc[q].id = loc[p].id
    /\ ops[q] = <<"userExists", "createPost">>
    /\ Cardinality({i \in DOMAIN posts : posts[i].id = loc[p].id}) = 1

\* C23: no step changes a stored post in place: a post of a stored id that is
\* stored after the step is the same row, and every stored post is the row
\* its createPost inserted (id, user_id, title, body, created_at).
C23_NeverUpdated ==
  [][/\ \A r \in Rows(posts) : \A r2 \in Rows(posts') : r2.id = r.id => r2 = r
     /\ \A r \in Rows(posts') :
          hist'[r.id].ev = "created" /\ hist'[r.id].post = r]_vars

\* A post created at an earlier time is stored as created, after another
\* post was created and deleted
C23_Witness ==
  \E r \in Rows(posts) :
    /\ r.created_at < now
    /\ hist[r.id].post = r
    /\ \E i \in PostIds \ {r.id} : hist[i].ev = "deleted"

PostStatements == {<<>>, <<"userExists">>, <<"userExists", "createPost">>}

\* C25: a POST /posts or DELETE /posts/:id answered 400 is answered by its
\* first step and has issued no storage statement; a POST /posts issues its
\* insert only in the step that answers its existence query, and only when
\* that answer is that the user exists; when the answer is no or the query
\* failed, the request ends without an insert.
C25_ValidationFirst ==
  [][\A p \in Procs :
       /\ (/\ pc[p] # "done" /\ pc'[p] = "done" /\ resp'[p].status = 400
           /\ req'[p].kind \in {"POST /posts", "DELETE /posts/:id"})
          => pc[p] = "idle" /\ ops'[p] = <<>>
       /\ (ops'[p] # ops[p] /\ pc'[p] = "createPost")
          => /\ pc[p] = "userExists"
             /\ ops[p] = <<"userExists">>
             /\ ops'[p] = <<"userExists", "createPost">>
             /\ KnownUser(loc[p].userId)
             /\ thrown'[p] = ""
       /\ (/\ pc[p] = "userExists" /\ pc'[p] # "userExists"
           /\ (~KnownUser(loc[p].userId) \/ thrown'[p] # ""))
          => pc'[p] = "done" /\ ops'[p] = <<"userExists">>
       /\ req'[p].kind = "POST /posts" => ops'[p] \in PostStatements]_vars

\* A POST /posts whose existence query failed: answered, no insert issued
C25_Witness ==
  \E p \in Procs :
    /\ Answered(p) /\ IsPost(p)
    /\ thrown[p] = "Failed to verify user existence"
    /\ ops[p] = <<"userExists">>
    /\ posts = <<>>

\* C26: of the DELETE /posts/:id requests in flight together for the id of a
\* stored post, the one whose delete is answered first (without a storage
\* fault) responds 204 and removes the post, and every other one, answered
\* without a fault while the post has not been created again, responds 404
\* "Post not found": never two 204, whichever callback runs first.
C26_ConcurrentDeletes ==
  [][\A p \in Procs :
       (/\ pc[p] = "deletePost" /\ pc'[p] = "done" /\ thrown'[p] = ""
        /\ loc[p].id \in PostIds)
       => /\ HasPost(loc[p].id)
               => /\ resp'[p] = Status(204)
                  /\ ~\E i \in DOMAIN posts' : posts'[i].id = loc[p].id
                  /\ hist'[loc[p].id].racing =
                       {q \in Procs \ {p} : pc[q] = "deletePost" /\ loc[q].id = loc[p].id}
          /\ (hist[loc[p].id].ev = "deleted" /\ p \in hist[loc[p].id].racing)
               => resp'[p] = SendError(404, "Post not found")]_vars

\* Two deletes of one post that were in flight together: a 204 and a 404
C26_Witness ==
  \E p, q \in Procs :
    /\ Answered(p) /\ IsDelete(p) /\ resp[p] = Status(204)
    /\ Answered(q) /\ IsDelete(q) /\ resp[q] = SendError(404, "Post not found")
    /\ loc[p].id = loc[q].id /\ loc[p].id \in PostIds
    /\ hist[loc[p].id].ev = "deleted"
    /\ q \in hist[loc[p].id].racing

PaginationShown == usersQuery = "success"

Buttons(items) == {items[k].page : k \in {j \in DOMAIN items : items[j].kind = "button"}}

HasItem(items, kind) == \E k \in DOMAIN items : items[k].kind = kind

\* C27: whenever the Pagination is shown with totalPages >= 1 and currentPage
\* in 0..totalPages-1, the window start..end of renderPages has at most 5
\* page indices, lies within 0..totalPages-1 and contains currentPage; the
\* buttons shown are those of the window and of the first and the last page,
\* each once and in ascending order; and an ellipsis is shown on a side
\* exactly when the window leaves a gap to the first (last) page.
C27_Window ==
  LET totalPages == TotalPages(countData)
      start == WindowStart(currentPage, totalPages)
      end == WindowEnd(currentPage, totalPages)
      shown == SelectSeq(pages, LAMBDA item : item.kind = "button")
  IN (PaginationShown /\ totalPages >= 1 /\ currentPage \in 0..(totalPages - 1))
     => /\ end - start + 1 <= 5
        /\ 0 <= start /\ start <= currentPage /\ currentPage <= end /\ end <= totalPages - 1
        /\ Buttons(pages) = (start..end) \cup {0, totalPages - 1}
        /\ \A k \in 1..(Len(shown) - 1) : shown[k].page < shown[k + 1].page
        /\ HasItem(pages, "dots-start") <=> start > 1
        /\ HasItem(pages, "dots-end") <=> end < totalPages - 2
        /\ HasItem(pages, "dots-start") => pages[1] = PageButton(0) /\ pages[2] = DotsStart
        /\ HasItem(pages, "dots-end")
             => /\ pages[Len(pages)] = PageButton(totalPages - 1)
                /\ pages[Len(pages) - 1] = DotsEnd

\* A window in the middle: first page, ellipsis, five pages, ellipsis, last
C27_Witness ==
  /\ PaginationShown
  /\ TotalPages(countData) = 9
  /\ currentPage = 4
  /\ pages = <<PageButton(0), DotsStart, PageButton(2), PageButton(3), PageButton(4),
               PageButton(5), PageButton(6), DotsEnd, PageButton(8)>>

\* C28 as stated: on the users page the current page index is never below 0
\* and never above max(totalPages - 1, 0), whatever enabled Previous, Next
\* and page buttons are clicked and whatever the count is.
C28_AsStated ==
  /\ currentPage >= 0
  /\ currentPage <= Max(TotalPages(countData) - 1, 0)

\* C29: on the posts page a step sends a delete request only when the dialog
\* is open with a post selected and no delete pending; it sends it for the
\* selected post and closes the dialog.  A step that closes the dialog
\* without sending clears the selection and sends nothing.  While a delete
\* is pending no step selects a post, opens the dialog or sends a request.
C29_DeleteOnlyByConfirm ==
  [][/\ sent' # sent
          => /\ deleteModalOpen /\ postToDelete # NoId /\ ~deletePending
             /\ postToDelete \in shownPosts
             /\ sent' = Append(sent, postToDelete)
             /\ deletePending'
             /\ ~deleteModalOpen' /\ postToDelete' = NoId
     /\ (deleteModalOpen /\ ~deleteModalOpen' /\ ~deletePending')
          => sent' = sent /\ postToDelete' = NoId
     /\ deletePending
          => /\ sent' = sent
             /\ postToDelete' = postToDelete
             /\ deleteModalOpen' = deleteModalOpen]_vars

\* A confirm: one request sent, for the second card, and pending; the
\* dialog closed, the selection cleared, both cards still shown
C29_Witness ==
  /\ deletePending
  /\ sent = <<PostId(2)>>
  /\ ~deleteModalOpen /\ postToDelete = NoId
  /\ shownPosts = PostIds

\* C30 as stated: a delayed close closes the modal only in the session in
\* which its submission was made; one scheduled by an earlier session never
\* closes (nor clears the message of) a modal opened again since.
C30_AsStated == ~(lastFired.closed /\ lastFired.from < lastFired.at)

====
